---- MODULE Spec2Model ----
(***************************************************************************)
(* Model of the task-manager client: the App component's state, its event  *)
(* handlers and asynchronous continuations (src/src/App.tsx), the API      *)
(* client (src/src/api.ts) and the view-state derivation (filter, search,  *)
(* grouping).                                                              *)
(*                                                                         *)
(* JavaScript strings that are searched (title, description, search term)  *)
(* are sequences of one-character strings.  An optional string is a        *)
(* sequence of length 0 (undefined) or 1 (the string).  Messages, tokens,  *)
(* users and statuses are TLA+ strings.                                    *)
(***************************************************************************)
EXTENDS Integers, Sequences, FiniteSets, TLC

VARIABLES
    tasks,          \* App.tsx:18  useState<Task[]>([])
    loading,        \* App.tsx:19  useState(true)
    error,          \* App.tsx:20  useState<string | null>(null)
    title,          \* App.tsx:22  useState("")
    description,    \* App.tsx:23  useState("")
    statusFilter,   \* App.tsx:25  useState<FilterStatus>("all")
    searchTerm,     \* App.tsx:26  useState("")
    user,           \* App.tsx:28  useState<User | null>(null)
    authError,      \* App.tsx:33  useState<string | null>(null)
    authLoading,    \* App.tsx:34  useState(false)
    token,          \* localStorage item "token"
    initPc,         \* position of the mount effect (App.tsx:54-75)
    requests,       \* requests in flight, each with the continuation awaiting it
    srvTasks,       \* the remote collaborator's task records, newest first
    srvOwner,       \* the remote collaborator's owner of every identifier it assigned
    events          \* user events since the page was opened (bounds the exploration)

vars == <<tasks, loading, error, title, description, statusFilter, searchTerm,
          user, authError, authLoading, token, initPc, requests,
          srvTasks, srvOwner, events>>

----------------------------------------------------------------------------
(* Bounds of the model *)

MaxViewTasks == 2      \* longest task list the view derivation is checked on
MaxSearchLen == 2      \* longest search term
MaxInflight == 2       \* requests in flight at once
MaxTaskId == 3         \* identifiers the remote side assigns (two exist at start)
MaxEvents == 4         \* user events per visit, in the specification of the whole app
MaxBoardEvents == 3    \* user events, in the specification of the board
MaxCacheLen == 3       \* longest list a write response is reconciled with

----------------------------------------------------------------------------
(* JavaScript values *)

Null == "<null>"
Undefined == <<>>
Some(s) == <<s>>

\* a ?? b on an optional string
Coalesce(opt, default) == IF opt = Undefined THEN default ELSE opt[1]

\* a || b on a message (string | undefined | null): "" and the absent values are falsy
MsgOr(a, b) == IF a \in {"", Null, "<undefined>"} THEN b ELSE a

\* String.prototype.toLowerCase, on the letters of the model's alphabet
LowerChar(c) == CASE c = "A" -> "a" [] c = "B" -> "b" [] OTHER -> c
toLowerCase(s) == [i \in 1..Len(s) |-> LowerChar(s[i])]

IsSpace(c) == c = " "

\* String.prototype.trim: strip the leading, then the trailing white space
RECURSIVE trimStart(_)
trimStart(s) == IF s # <<>> /\ IsSpace(Head(s)) THEN trimStart(Tail(s)) ELSE s
RECURSIVE trimEnd(_)
trimEnd(s) ==
    IF s # <<>> /\ IsSpace(s[Len(s)]) THEN trimEnd(SubSeq(s, 1, Len(s) - 1)) ELSE s
trim(s) == trimEnd(trimStart(s))

\* String.prototype.includes
includes(s, sub) ==
    \E i \in 0..(Len(s) - Len(sub)) : SubSeq(s, i + 1, i + Len(sub)) = sub

----------------------------------------------------------------------------
(* Task["status"] and the board's columns *)

StatusKeys == {"todo", "in-progress", "done"}
FilterStatus == {"all"} \cup StatusKeys

----------------------------------------------------------------------------
(* Filter + grouping logic, App.tsx:181-211 *)

\* (mutant) the search term lowercased but not trimmed
normalizedSearchOf_noTrim(term) == toLowerCase(term)

normalizedSearchOf(term) == toLowerCase(trim(term))

\* (mutant) the status predicate ignoring the selected status
matchesStatus_anyStatus(task, filter) == TRUE

\* (mutant) the status predicate without the "all" case
matchesStatus_noAll(task, filter) == task.status = filter

matchesStatus(task, filter) ==
    IF filter = "all" THEN TRUE ELSE task.status = filter

\* ns is the normalized search term
matchesSearch(task, ns) ==
    \/ ns = <<>>
    \/ includes(toLowerCase(task.title), ns)
    \/ includes(toLowerCase(Coalesce(task.description, <<>>)), ns)

FilterTasks(L, filter, term) ==
    SelectSeq(L, LAMBDA task : /\ matchesStatus(task, filter)
                               /\ matchesSearch(task, normalizedSearchOf(term)))

\* (mutant) an unrecognized status sent to the last column
groupStatus_fallbackDone(task) ==
    IF task.status \in {"todo", "in-progress", "done"} THEN task.status ELSE "done"

groupStatus(task) ==
    IF task.status = "todo" \/ task.status = "in-progress" \/ task.status = "done"
    THEN task.status
    ELSE "todo"

RECURSIVE GroupLoop(_, _, _)
GroupLoop(ft, i, g) ==
    IF i > Len(ft) THEN g
    ELSE GroupLoop(ft, i + 1, [g EXCEPT ![groupStatus(ft[i])] = Append(@, ft[i])])

\* (mutant) the loop starting one element late
GroupTasks_skipFirst(ft) == GroupLoop(ft, 2, [k \in StatusKeys |-> <<>>])

GroupTasks(ft) == GroupLoop(ft, 1, [k \in StatusKeys |-> <<>>])

normalizedSearch == normalizedSearchOf(searchTerm)
filteredTasks == FilterTasks(tasks, statusFilter, searchTerm)
grouped == GroupTasks(filteredTasks)

----------------------------------------------------------------------------
(* The remote collaborator's users and bearer tokens *)

Users == {"alice", "bob"}
TokenOf(u) == IF u = "alice" THEN "jwt-alice" ELSE "jwt-bob"
Tokens == {TokenOf(u) : u \in Users}
UserOfToken(t) == CHOOSE u \in Users : TokenOf(u) = t

\* a token the remote side no longer accepts
ExpiredToken == "jwt-expired"

\* Task records the remote side holds when the page is opened
InitialServerTasks ==
    << [id |-> 2, title |-> <<"b">>, description |-> Undefined,
        status |-> "done", completed |-> TRUE],
       [id |-> 1, title |-> <<"A", "b">>, description |-> Some(<<"a">>),
        status |-> "todo", completed |-> FALSE] >>
InitialServerOwner == (1 :> "alice") @@ (2 :> "bob")

----------------------------------------------------------------------------
(* API client, api.ts:90-225 *)

\* getAuthHeaders: the Authorization header, read from storage when called
AuthHeadersOf(tok) == IF tok \in {Null, ""} THEN <<>> ELSE <<tok>>
getAuthHeaders == AuthHeadersOf(token)

\* the fixed message of each operation
DefaultMessage(api) ==
    CASE api = "registerUser" -> "Failed to register"
      [] api = "loginUser" -> "Failed to login"
      [] api = "getCurrentuser" -> "Failed to load user"
      [] api = "fetchTasks" -> "Failed to fetch tasks"
      [] api = "createTask" -> "Failed to create task"
      [] api = "updateTask" -> "Failed to update task"
      [] api = "deleteTask" -> "Failed to delete task"

\* The ways a request fails: fetch() itself rejects, or the response is not ok and
\* its body is not JSON, is the JSON value null, is an object without an error field,
\* or is one with an error field (empty or not).
Failures ==
    {"network", "not-json", "json-null", "no-error-field", "error-empty", "error-denied"}
NetworkMessage == "Failed to fetch"
\* reading .error of null throws, inside the api function
TypeErrorMessage == "Cannot read properties of null (reading 'error')"

\* One failure for each message an api function can throw: a body without an error
\* field, or with an empty one, throws what a body that is not JSON throws.
DistinctFailures == {"network", "not-json", "json-null", "error-denied"}

\* data.error after  res.json().catch(() => ({}))
ErrorField(f) ==
    CASE f = "not-json" -> "<undefined>"
      [] f = "no-error-field" -> "<undefined>"
      [] f = "error-empty" -> ""
      [] f = "error-denied" -> "denied"

\* the message of the Error the api function throws
ThrownMessage(api, f) ==
    IF f = "network" THEN NetworkMessage
    ELSE IF f = "json-null" THEN TypeErrorMessage
    ELSE MsgOr(ErrorField(f), DefaultMessage(api))

----------------------------------------------------------------------------
(* Requests in flight.  A request holds what was sent (api, auth, arg), the  *)
(* handler whose continuation awaits it, and once the remote side has        *)
(* answered it, the response.                                                *)

NoArg == [user |-> Null, id |-> 0, data |-> <<>>]
NoResult == [token |-> Null, user |-> Null, data |-> <<>>]

FreeSlot == CHOOSE s \in 1..MaxInflight :
                /\ \A r \in requests : r.slot # s
                /\ \A s2 \in 1..(s - 1) : \E r \in requests : r.slot = s2
CanSend == Cardinality(requests) < MaxInflight

Request(slot, api, handler, auth, arg) ==
    [slot |-> slot, api |-> api, handler |-> handler, auth |-> auth, arg |-> arg,
     phase |-> "sent", result |-> NoResult]

Replace(r, r2) == (requests \ {r}) \cup {r2}
Answered(r, result) == [r EXCEPT !.phase = "ok", !.result = result]

\* A request can fail however it was answered: before the remote side acted on it in
\* any of the ways of Failures, after it only by the response being lost.
CanFail(r, f) ==
    /\ r \in requests
    /\ f \in Failures
    /\ r.phase = "ok" => f = "network"

----------------------------------------------------------------------------
(* The remote collaborator (README "API Endpoints Used by the Frontend").    *)
(* It answers a request it accepts; a request it refuses fails at the client *)
(* (CanFail) and leaves the remote state as it was.                          *)

Authenticated(r) == r.auth # <<>> /\ r.auth[1] \in Tokens
Caller(r) == UserOfToken(r.auth[1])
Owns(u, id) == id \in DOMAIN srvOwner /\ srvOwner[id] = u
Holds(id) == \E i \in 1..Len(srvTasks) : srvTasks[i].id = id

\* PATCH semantics: only the provided fields change
ApplyPatch(t, patch) ==
    [t EXCEPT !.status = patch.status, !.completed = patch.completed]

\* POST /auth/register, POST /auth/login  ->  {token, user}
ServeAuth(r) ==
    /\ r \in requests /\ r.phase = "sent"
    /\ r.api \in {"registerUser", "loginUser"}
    /\ requests' = Replace(r, Answered(r,
            [token |-> TokenOf(r.arg.user), user |-> r.arg.user, data |-> <<>>]))
    /\ UNCHANGED <<tasks, loading, error, title, description, statusFilter,
                   searchTerm, user, authError, authLoading, token, initPc, srvTasks, srvOwner>>

\* GET /auth/me  ->  user
ServeMe(r) ==
    /\ r \in requests /\ r.phase = "sent"
    /\ r.api = "getCurrentuser"
    /\ Authenticated(r)
    /\ requests' = Replace(r, Answered(r,
            [token |-> Null, user |-> Caller(r), data |-> <<>>]))
    /\ UNCHANGED <<tasks, loading, error, title, description, statusFilter,
                   searchTerm, user, authError, authLoading, token, initPc, srvTasks, srvOwner>>

\* GET /tasks  ->  the caller's tasks
ServeList(r) ==
    /\ r \in requests /\ r.phase = "sent"
    /\ r.api = "fetchTasks"
    /\ Authenticated(r)
    /\ requests' = Replace(r, Answered(r,
            [token |-> Null, user |-> Null,
             data |-> SelectSeq(srvTasks, LAMBDA t : Owns(Caller(r), t.id))]))
    /\ UNCHANGED <<tasks, loading, error, title, description, statusFilter,
                   searchTerm, user, authError, authLoading, token, initPc, srvTasks, srvOwner>>

\* POST /tasks  ->  the new task, with the identifier the remote side assigns
ServeCreate(r) ==
    /\ r \in requests /\ r.phase = "sent"
    /\ r.api = "createTask"
    /\ Authenticated(r)
    /\ Cardinality(DOMAIN srvOwner) < MaxTaskId
    /\ LET id == Cardinality(DOMAIN srvOwner) + 1
           new == [id |-> id, title |-> r.arg.data[1].title,
                   description |-> Some(r.arg.data[1].description),
                   status |-> "todo", completed |-> FALSE]
       IN /\ srvTasks' = <<new>> \o srvTasks
          /\ srvOwner' = srvOwner @@ (id :> Caller(r))
          /\ requests' = Replace(r, Answered(r,
                  [token |-> Null, user |-> Null, data |-> <<new>>]))
    /\ UNCHANGED <<tasks, loading, error, title, description, statusFilter,
                   searchTerm, user, authError, authLoading, token, initPc>>

\* PATCH /tasks/:id  ->  the task as updated
ServeUpdate(r) ==
    /\ r \in requests /\ r.phase = "sent"
    /\ r.api = "updateTask"
    /\ Authenticated(r)
    /\ Owns(Caller(r), r.arg.id) /\ Holds(r.arg.id)
    /\ LET i == CHOOSE i \in 1..Len(srvTasks) : srvTasks[i].id = r.arg.id
           updated == ApplyPatch(srvTasks[i], r.arg.data[1])
       IN /\ srvTasks' = [srvTasks EXCEPT ![i] = updated]
          /\ requests' = Replace(r, Answered(r,
                  [token |-> Null, user |-> Null, data |-> <<updated>>]))
    /\ UNCHANGED <<tasks, loading, error, title, description, statusFilter,
                   searchTerm, user, authError, authLoading, token, initPc, srvOwner>>

\* DELETE /tasks/:id  ->  empty
ServeDelete(r) ==
    /\ r \in requests /\ r.phase = "sent"
    /\ r.api = "deleteTask"
    /\ Authenticated(r)
    /\ Owns(Caller(r), r.arg.id) /\ Holds(r.arg.id)
    /\ srvTasks' = SelectSeq(srvTasks, LAMBDA t : t.id # r.arg.id)
    /\ requests' = Replace(r, Answered(r, NoResult))
    /\ UNCHANGED <<tasks, loading, error, title, description, statusFilter,
                   searchTerm, user, authError, authLoading, token, initPc, srvOwner>>

----------------------------------------------------------------------------
(* API client calls: the request each one sends *)

registerUser(slot, handler, u) ==
    Request(slot, "registerUser", handler, <<>>, [NoArg EXCEPT !.user = u])
loginUser(slot, handler, u) ==
    Request(slot, "loginUser", handler, <<>>, [NoArg EXCEPT !.user = u])
getCurrentuser(slot, handler, tok) ==
    Request(slot, "getCurrentuser", handler, AuthHeadersOf(tok), NoArg)
fetchTasks(slot, handler, tok) ==
    Request(slot, "fetchTasks", handler, AuthHeadersOf(tok), NoArg)
createTask(slot, handler, tok, data) ==
    Request(slot, "createTask", handler, AuthHeadersOf(tok),
            [NoArg EXCEPT !.data = <<data>>])
updateTask(slot, handler, tok, id, data) ==
    Request(slot, "updateTask", handler, AuthHeadersOf(tok),
            [NoArg EXCEPT !.id = id, !.data = <<data>>])
deleteTask(slot, handler, tok, id) ==
    Request(slot, "deleteTask", handler, AuthHeadersOf(tok), [NoArg EXCEPT !.id = id])

----------------------------------------------------------------------------
(* What the render shows, App.tsx:223-760 *)

AuthScreenShown == user = Null
\* (mutant) the form rendered while the page is loading
AuthFormShown_whileLoading == AuthScreenShown

AuthFormShown == AuthScreenShown /\ ~loading
\* (mutant) the submit control left enabled while a submission is pending
SubmitEnabled_whilePending == AuthFormShown

SubmitEnabled == AuthFormShown /\ ~authLoading
BoardShown == user # Null
TaskControlsShown(task) ==
    /\ BoardShown
    /\ ~loading
    /\ \E i \in 1..Len(filteredTasks) : filteredTasks[i] = task

\* what the user can type into the add-task form
TitleInputs == {<<>>, <<" ">>, <<"b">>}
DescriptionInputs == {<<>>, <<"a">>}

----------------------------------------------------------------------------
(* Mount effect, App.tsx:54-75 *)

\* (mutant) the current-user check made whether or not a token is stored
init_alwaysChecks ==
    /\ initPc = "start"
    /\ requests' = requests \cup {getCurrentuser(FreeSlot, "init", token)}
    /\ initPc' = "awaitMe"
    /\ UNCHANGED <<tasks, loading, error, title, description, statusFilter, searchTerm,
                   user, authError, authLoading, token, srvTasks, srvOwner>>

init ==
    /\ initPc = "start"
    /\ IF token \in {Null, ""}
       THEN /\ loading' = FALSE
            /\ initPc' = "done"
            /\ UNCHANGED requests
       ELSE /\ requests' = requests \cup {getCurrentuser(FreeSlot, "init", token)}
            /\ initPc' = "awaitMe"
            /\ UNCHANGED loading
    /\ UNCHANGED <<tasks, error, title, description, statusFilter, searchTerm, user,
                   authError, authLoading, token, srvTasks, srvOwner>>

\* getCurrentuser resolved: setUser(me); loadTasks() up to its await
init_resolved(r) ==
    /\ r \in requests /\ r.phase = "ok"
    /\ r.api = "getCurrentuser" /\ r.handler = "init"
    /\ user' = r.result.user
    /\ loading' = TRUE
    /\ requests' = Replace(r, fetchTasks(r.slot, "init", token))
    /\ initPc' = "awaitTasks"
    /\ UNCHANGED <<tasks, error, title, description, statusFilter, searchTerm,
                   authError, authLoading, token, srvTasks, srvOwner>>

\* (mutant) the catch block without localStorage.removeItem
init_rejected_keepsToken(r, f) ==
    /\ CanFail(r, f)
    /\ r.api = "getCurrentuser" /\ r.handler = "init"
    /\ user' = Null
    /\ loading' = FALSE
    /\ requests' = requests \ {r}
    /\ initPc' = "caught"
    /\ UNCHANGED <<tasks, error, title, description, statusFilter, searchTerm,
                   authError, authLoading, token, srvTasks, srvOwner>>

\* getCurrentuser rejected: the catch block, after which the effect has ended
init_rejected(r, f) ==
    /\ CanFail(r, f)
    /\ r.api = "getCurrentuser" /\ r.handler = "init"
    /\ token' = Null
    /\ user' = Null
    /\ loading' = FALSE
    /\ requests' = requests \ {r}
    /\ initPc' = "caught"
    /\ UNCHANGED <<tasks, error, title, description, statusFilter, searchTerm,
                   authError, authLoading, srvTasks, srvOwner>>

----------------------------------------------------------------------------
(* loadTasks, App.tsx:38-50, from its await on; then the caller's remainder  *)
(* (init: nothing; handleLogin, handleRegister: finally setAuthLoading(false)) *)

loadTasks_resolved(r) ==
    /\ r \in requests /\ r.phase = "ok"
    /\ r.api = "fetchTasks"
    /\ tasks' = r.result.data
    /\ error' = Null
    /\ loading' = FALSE
    /\ authLoading' = IF r.handler = "init" THEN authLoading ELSE FALSE
    /\ initPc' = IF r.handler = "init" THEN "done" ELSE initPc
    /\ requests' = requests \ {r}
    /\ UNCHANGED <<title, description, statusFilter, searchTerm, user, authError,
                   token, srvTasks, srvOwner>>

\* (mutant) loadTasks without a catch of its own: the caller's catch reports the failure
loadTasks_rejected_asAuthError(r, f) ==
    /\ CanFail(r, f)
    /\ r.api = "fetchTasks"
    /\ authError' = MsgOr(ThrownMessage(r.api, f), "Login failed")
    /\ loading' = FALSE
    /\ authLoading' = IF r.handler = "init" THEN authLoading ELSE FALSE
    /\ initPc' = IF r.handler = "init" THEN "done" ELSE initPc
    /\ requests' = requests \ {r}
    /\ UNCHANGED <<tasks, error, title, description, statusFilter, searchTerm, user,
                   token, srvTasks, srvOwner>>

\* (mutant) the catch block without the finally block after it
loadTasks_rejected_noFinally(r, f) ==
    /\ CanFail(r, f)
    /\ r.api = "fetchTasks"
    /\ error' = MsgOr(ThrownMessage(r.api, f), "Failed to load tasks")
    /\ authLoading' = IF r.handler = "init" THEN authLoading ELSE FALSE
    /\ initPc' = IF r.handler = "init" THEN "done" ELSE initPc
    /\ requests' = requests \ {r}
    /\ UNCHANGED <<tasks, loading, title, description, statusFilter, searchTerm, user,
                   authError, token, srvTasks, srvOwner>>

\* (mutant) a failed task fetch taken as the end of the session
loadTasks_rejected_dropsToken(r, f) ==
    /\ CanFail(r, f)
    /\ r.api = "fetchTasks"
    /\ error' = MsgOr(ThrownMessage(r.api, f), "Failed to load tasks")
    /\ loading' = FALSE
    /\ authLoading' = IF r.handler = "init" THEN authLoading ELSE FALSE
    /\ initPc' = IF r.handler = "init" THEN "done" ELSE initPc
    /\ requests' = requests \ {r}
    /\ token' = Null
    /\ UNCHANGED <<tasks, title, description, statusFilter, searchTerm, user,
                   authError, srvTasks, srvOwner>>

loadTasks_rejected(r, f) ==
    /\ CanFail(r, f)
    /\ r.api = "fetchTasks"
    /\ error' = MsgOr(ThrownMessage(r.api, f), "Failed to load tasks")
    /\ loading' = FALSE
    /\ authLoading' = IF r.handler = "init" THEN authLoading ELSE FALSE
    /\ initPc' = IF r.handler = "init" THEN "done" ELSE initPc
    /\ requests' = requests \ {r}
    /\ UNCHANGED <<tasks, title, description, statusFilter, searchTerm, user,
                   authError, token, srvTasks, srvOwner>>

----------------------------------------------------------------------------
(* Auth handlers, App.tsx:79-123.  The credentials typed into the form are   *)
(* the handler's input u: the account they belong to.                        *)

\* The Login / Register tabs, App.tsx:248-283.  Which tab is selected (authMode) only
\* decides which of handleLogin and handleRegister the form submits to; it is the
\* user's choice and is not kept in the model.
setAuthMode ==
    /\ AuthScreenShown
    /\ authError' = Null
    /\ UNCHANGED <<tasks, loading, error, title, description, statusFilter,
                   searchTerm, user, authLoading, token, initPc, requests,
                   srvTasks, srvOwner>>

handleRegister(u) ==
    /\ SubmitEnabled
    /\ CanSend
    /\ authError' = Null
    /\ authLoading' = TRUE
    /\ requests' = requests \cup {registerUser(FreeSlot, "handleRegister", u)}
    /\ UNCHANGED <<tasks, loading, error, title, description, statusFilter,
                   searchTerm, user, token, initPc, srvTasks, srvOwner>>

handleLogin(u) ==
    /\ SubmitEnabled
    /\ CanSend
    /\ authError' = Null
    /\ authLoading' = TRUE
    /\ requests' = requests \cup {loginUser(FreeSlot, "handleLogin", u)}
    /\ UNCHANGED <<tasks, loading, error, title, description, statusFilter,
                   searchTerm, user, token, initPc, srvTasks, srvOwner>>

\* (mutant) loadTasks sending the token that was stored when the form was submitted
handleAuth_resolved_staleToken(r) ==
    /\ r \in requests /\ r.phase = "ok"
    /\ r.api \in {"registerUser", "loginUser"}
    /\ token' = r.result.token
    /\ user' = r.result.user
    /\ loading' = TRUE
    /\ requests' = Replace(r, fetchTasks(r.slot, r.handler, token))
    /\ UNCHANGED <<tasks, error, title, description, statusFilter, searchTerm,
                   authError, authLoading, initPc, srvTasks, srvOwner>>

\* registerUser / loginUser resolved: store the token, setUser, loadTasks() up to
\* its await
handleAuth_resolved(r) ==
    /\ r \in requests /\ r.phase = "ok"
    /\ r.api \in {"registerUser", "loginUser"}
    /\ token' = r.result.token
    /\ user' = r.result.user
    /\ loading' = TRUE
    /\ requests' = Replace(r, fetchTasks(r.slot, r.handler, token'))
    /\ UNCHANGED <<tasks, error, title, description, statusFilter, searchTerm,
                   authError, authLoading, initPc, srvTasks, srvOwner>>

\* (mutant) the rejection handled without the finally block
handleAuth_rejected_noFinally(r, f) ==
    /\ CanFail(r, f)
    /\ r.api \in {"registerUser", "loginUser"}
    /\ authError' = MsgOr(ThrownMessage(r.api, f),
                          IF r.handler = "handleRegister" THEN "Registration failed"
                                                          ELSE "Login failed")
    /\ requests' = requests \ {r}
    /\ UNCHANGED <<tasks, loading, error, title, description, statusFilter,
                   searchTerm, user, authLoading, token, initPc, srvTasks, srvOwner>>

\* registerUser / loginUser rejected: catch, then finally
handleAuth_rejected(r, f) ==
    /\ CanFail(r, f)
    /\ r.api \in {"registerUser", "loginUser"}
    /\ authError' = MsgOr(ThrownMessage(r.api, f),
                          IF r.handler = "handleRegister" THEN "Registration failed"
                                                          ELSE "Login failed")
    /\ authLoading' = FALSE
    /\ requests' = requests \ {r}
    /\ UNCHANGED <<tasks, loading, error, title, description, statusFilter,
                   searchTerm, user, token, initPc, srvTasks, srvOwner>>

\* (mutant) a logout that leaves the token in storage
handleLogout_keepsToken ==
    /\ BoardShown
    /\ user' = Null
    /\ tasks' = <<>>
    /\ error' = Null
    /\ UNCHANGED <<loading, title, description, statusFilter, searchTerm, authError,
                   authLoading, token, initPc, requests, srvTasks, srvOwner>>

\* (mutant) a logout that leaves the list and the error message on screen
handleLogout_keepsTasks ==
    /\ BoardShown
    /\ token' = Null
    /\ user' = Null
    /\ UNCHANGED <<tasks, error, loading, title, description, statusFilter, searchTerm,
                   authError, authLoading, initPc, requests, srvTasks, srvOwner>>

handleLogout ==
    /\ BoardShown
    /\ token' = Null
    /\ user' = Null
    /\ tasks' = <<>>
    /\ error' = Null
    /\ UNCHANGED <<loading, title, description, statusFilter, searchTerm, authError,
                   authLoading, initPc, requests, srvTasks, srvOwner>>

----------------------------------------------------------------------------
(* Task handlers, App.tsx:127-177 *)

setTitle(t) ==
    /\ BoardShown
    /\ title' = t
    /\ UNCHANGED <<tasks, loading, error, description, statusFilter, searchTerm,
                   user, authError, authLoading, token, initPc, requests,
                   srvTasks, srvOwner>>

setDescription(d) ==
    /\ BoardShown
    /\ description' = d
    /\ UNCHANGED <<tasks, loading, error, title, statusFilter, searchTerm, user,
                   authError, authLoading, token, initPc, requests,
                   srvTasks, srvOwner>>

\* (mutant) the title tested without trim()
handleAddTask_noTrim ==
    /\ BoardShown
    /\ IF title = <<>>
       THEN UNCHANGED requests
       ELSE /\ CanSend
            /\ requests' = requests \cup
                   {createTask(FreeSlot, "handleAddTask", token,
                               [title |-> title, description |-> description])}
    /\ UNCHANGED <<tasks, loading, error, title, description, statusFilter,
                   searchTerm, user, authError, authLoading, token, initPc, srvTasks, srvOwner>>

handleAddTask ==
    /\ BoardShown
    /\ IF trim(title) = <<>>
       THEN UNCHANGED requests
       ELSE /\ CanSend
            /\ requests' = requests \cup
                   {createTask(FreeSlot, "handleAddTask", token,
                               [title |-> title, description |-> description])}
    /\ UNCHANGED <<tasks, loading, error, title, description, statusFilter,
                   searchTerm, user, authError, authLoading, token, initPc, srvTasks, srvOwner>>

handleAddTask_resolved(r) ==
    /\ r \in requests /\ r.phase = "ok"
    /\ r.api = "createTask"
    /\ tasks' = <<r.result.data[1]>> \o tasks
    /\ title' = <<>>
    /\ description' = <<>>
    /\ requests' = requests \ {r}
    /\ UNCHANGED <<loading, error, statusFilter, searchTerm, user, authError,
                   authLoading, token, initPc, srvTasks, srvOwner>>

handleAddTask_rejected(r, f) ==
    /\ CanFail(r, f)
    /\ r.api = "createTask"
    /\ error' = MsgOr(ThrownMessage(r.api, f), "Failed to create task")
    /\ requests' = requests \ {r}
    /\ UNCHANGED <<tasks, loading, title, description, statusFilter, searchTerm,
                   user, authError, authLoading, token, initPc,
                   srvTasks, srvOwner>>

\* (mutant) the completed flag flipped, the status left as it is
TogglePatch_statusKept(task) == [completed |-> ~task.completed, status |-> task.status]

\* (mutant) a toggle that can only complete
TogglePatch_neverUndone(task) == [completed |-> TRUE, status |-> "done"]

\* the patch handleToggleComplete sends, App.tsx:143-146
TogglePatch(task) ==
    LET completed == ~task.completed
    IN [completed |-> completed, status |-> IF completed THEN "done" ELSE "todo"]

\* (mutant) the status sent without the coupled completed flag being raised
StatusPatch_neverCompleted(status) == [status |-> status, completed |-> FALSE]

\* the patch handleStatusChange sends, App.tsx:158-160
StatusPatch(status) == [status |-> status, completed |-> (status = "done")]

\* (mutant) an update that puts back an entry the list no longer has
ReplaceById_upsert(prev, updated) ==
    IF \E i \in 1..Len(prev) : prev[i].id = updated.id
    THEN [i \in 1..Len(prev) |-> IF prev[i].id = updated.id THEN updated ELSE prev[i]]
    ELSE <<updated>> \o prev

\* prev.map((t) => (t._id === updated._id ? updated : t))
ReplaceById(prev, updated) ==
    [i \in 1..Len(prev) |-> IF prev[i].id = updated.id THEN updated ELSE prev[i]]

\* (mutant) only the first entry with the identifier removed
RemoveById_firstOnly(prev, taskId) ==
    IF \E i \in 1..Len(prev) : prev[i].id = taskId
    THEN LET k == CHOOSE i \in 1..Len(prev) :
                      /\ prev[i].id = taskId
                      /\ \A j \in 1..(i - 1) : prev[j].id # taskId
         IN SubSeq(prev, 1, k - 1) \o SubSeq(prev, k + 1, Len(prev))
    ELSE prev

\* prev.filter((t) => t._id !== taskId)
RemoveById(prev, taskId) == SelectSeq(prev, LAMBDA t : t.id # taskId)

\* (mutant) the patch computed from what a toggle still in flight will make of the task
handleToggleComplete_chained(task) ==
    /\ TaskControlsShown(task)
    /\ CanSend
    /\ LET pending == {q \in requests : q.handler = "handleToggleComplete"
                                        /\ q.arg.id = task.id}
           base == IF pending = {} THEN task
                   ELSE [task EXCEPT !.completed =
                            (CHOOSE q \in pending : TRUE).arg.data[1].completed]
       IN requests' = requests \cup
              {updateTask(FreeSlot, "handleToggleComplete", token, task.id,
                          TogglePatch(base))}
    /\ UNCHANGED <<tasks, loading, error, title, description, statusFilter,
                   searchTerm, user, authError, authLoading, token, initPc, srvTasks, srvOwner>>

handleToggleComplete(task) ==
    /\ TaskControlsShown(task)
    /\ CanSend
    /\ requests' = requests \cup
           {updateTask(FreeSlot, "handleToggleComplete", token, task.id,
                       TogglePatch(task))}
    /\ UNCHANGED <<tasks, loading, error, title, description, statusFilter,
                   searchTerm, user, authError, authLoading, token, initPc, srvTasks, srvOwner>>

handleStatusChange(task, status) ==
    /\ TaskControlsShown(task)
    /\ status \in StatusKeys
    /\ CanSend
    /\ requests' = requests \cup
           {updateTask(FreeSlot, "handleStatusChange", token, task.id,
                       StatusPatch(status))}
    /\ UNCHANGED <<tasks, loading, error, title, description, statusFilter,
                   searchTerm, user, authError, authLoading, token, initPc, srvTasks, srvOwner>>

\* updateTask resolved, in either handler
handleUpdate_resolved(r) ==
    /\ r \in requests /\ r.phase = "ok"
    /\ r.api = "updateTask"
    /\ tasks' = ReplaceById(tasks, r.result.data[1])
    /\ requests' = requests \ {r}
    /\ UNCHANGED <<loading, error, title, description, statusFilter, searchTerm,
                   user, authError, authLoading, token, initPc,
                   srvTasks, srvOwner>>

handleUpdate_rejected(r, f) ==
    /\ CanFail(r, f)
    /\ r.api = "updateTask"
    /\ error' = MsgOr(ThrownMessage(r.api, f),
                      IF r.handler = "handleToggleComplete"
                      THEN "Failed to update task" ELSE "Failed to update status")
    /\ requests' = requests \ {r}
    /\ UNCHANGED <<tasks, loading, title, description, statusFilter, searchTerm,
                   user, authError, authLoading, token, initPc,
                   srvTasks, srvOwner>>

\* (mutant) the entry removed from the list before the remote side has answered
handleDelete_optimistic(taskId) ==
    /\ \E i \in 1..Len(tasks) : tasks[i].id = taskId /\ TaskControlsShown(tasks[i])
    /\ CanSend
    /\ requests' = requests \cup {deleteTask(FreeSlot, "handleDelete", token, taskId)}
    /\ tasks' = RemoveById(tasks, taskId)
    /\ UNCHANGED <<loading, error, title, description, statusFilter,
                   searchTerm, user, authError, authLoading, token, initPc, srvTasks, srvOwner>>

handleDelete(taskId) ==
    /\ \E i \in 1..Len(tasks) : tasks[i].id = taskId /\ TaskControlsShown(tasks[i])
    /\ CanSend
    /\ requests' = requests \cup {deleteTask(FreeSlot, "handleDelete", token, taskId)}
    /\ UNCHANGED <<tasks, loading, error, title, description, statusFilter,
                   searchTerm, user, authError, authLoading, token, initPc, srvTasks, srvOwner>>

handleDelete_resolved(r) ==
    /\ r \in requests /\ r.phase = "ok"
    /\ r.api = "deleteTask"
    /\ tasks' = RemoveById(tasks, r.arg.id)
    /\ requests' = requests \ {r}
    /\ UNCHANGED <<loading, error, title, description, statusFilter, searchTerm,
                   user, authError, authLoading, token, initPc,
                   srvTasks, srvOwner>>

handleDelete_rejected(r, f) ==
    /\ CanFail(r, f)
    /\ r.api = "deleteTask"
    /\ error' = MsgOr(ThrownMessage(r.api, f), "Failed to delete task")
    /\ requests' = requests \ {r}
    /\ UNCHANGED <<tasks, loading, title, description, statusFilter, searchTerm,
                   user, authError, authLoading, token, initPc,
                   srvTasks, srvOwner>>

----------------------------------------------------------------------------
(* Filter and search controls, App.tsx:539 and 567 *)

setStatusFilter(f) ==
    /\ BoardShown
    /\ statusFilter' = f
    /\ UNCHANGED <<tasks, loading, error, title, description, searchTerm, user,
                   authError, authLoading, token, initPc, requests,
                   srvTasks, srvOwner>>

setSearchTerm(term) ==
    /\ BoardShown
    /\ searchTerm' = term
    /\ UNCHANGED <<tasks, loading, error, title, description, statusFilter, user,
                   authError, authLoading, token, initPc, requests,
                   srvTasks, srvOwner>>

----------------------------------------------------------------------------
(* The application with its remote collaborator *)

Init ==
    /\ tasks = <<>>
    /\ loading = TRUE
    /\ error = Null
    /\ title = <<>>
    /\ description = <<>>
    /\ statusFilter = "all"
    /\ searchTerm = <<>>
    /\ user = Null
    /\ authError = Null
    /\ authLoading = FALSE
    /\ token \in {Null, TokenOf("alice"), ExpiredToken}    \* left by an earlier visit
    /\ initPc = "start"
    /\ requests = {}
    /\ srvTasks = InitialServerTasks
    /\ srvOwner = InitialServerOwner
    /\ events = 0

\* A user event, counted
Counted(A) == events < MaxEvents /\ A /\ events' = events + 1
CountedOnBoard(A) == events < MaxBoardEvents /\ A /\ events' = events + 1

\* The whole application, for MaxEvents user events.  The add-task form is given one
\* title, a valid one.
Next ==
    \/ init /\ UNCHANGED events
    \/ Counted(setAuthMode)
    \/ \E u \in Users : Counted(handleRegister(u))
    \/ \E u \in Users : Counted(handleLogin(u))
    \/ Counted(handleLogout)
    \/ Counted(setTitle(<<"b">>))
    \/ Counted(handleAddTask)
    \/ \E i \in 1..Len(tasks) : Counted(handleToggleComplete(tasks[i]))
    \/ \E i \in 1..Len(tasks), st \in StatusKeys :
           Counted(handleStatusChange(tasks[i], st))
    \/ \E i \in 1..Len(tasks) : Counted(handleDelete(tasks[i].id))
    \/ \E r \in requests : ServeAuth(r) /\ UNCHANGED events
    \/ \E r \in requests : ServeMe(r) /\ UNCHANGED events
    \/ \E r \in requests : ServeList(r) /\ UNCHANGED events
    \/ \E r \in requests : ServeCreate(r) /\ UNCHANGED events
    \/ \E r \in requests : ServeUpdate(r) /\ UNCHANGED events
    \/ \E r \in requests : ServeDelete(r) /\ UNCHANGED events
    \/ \E r \in requests : init_resolved(r) /\ UNCHANGED events
    \/ \E r \in requests : loadTasks_resolved(r) /\ UNCHANGED events
    \/ \E r \in requests : handleAuth_resolved(r) /\ UNCHANGED events
    \/ \E r \in requests : handleAddTask_resolved(r) /\ UNCHANGED events
    \/ \E r \in requests : handleUpdate_resolved(r) /\ UNCHANGED events
    \/ \E r \in requests : handleDelete_resolved(r) /\ UNCHANGED events
    \/ \E r \in requests, f \in DistinctFailures : init_rejected(r, f) /\ UNCHANGED events
    \/ \E r \in requests, f \in DistinctFailures : loadTasks_rejected(r, f) /\ UNCHANGED events
    \/ \E r \in requests, f \in DistinctFailures : handleAuth_rejected(r, f) /\ UNCHANGED events
    \/ \E r \in requests, f \in DistinctFailures :
           handleAddTask_rejected(r, f) /\ UNCHANGED events
    \/ \E r \in requests, f \in DistinctFailures : handleUpdate_rejected(r, f) /\ UNCHANGED events
    \/ \E r \in requests, f \in DistinctFailures : handleDelete_rejected(r, f) /\ UNCHANGED events

Spec == Init /\ [][Next]_vars

\* The whole application when what has been started goes on: the mount effect runs,
\* and every request that was issued completes, with success or with failure, its
\* continuation running then.
Completes(r) ==
    \/ init_resolved(r) \/ loadTasks_resolved(r) \/ handleAuth_resolved(r)
    \/ handleAddTask_resolved(r) \/ handleUpdate_resolved(r) \/ handleDelete_resolved(r)
    \/ \E f \in DistinctFailures :
           \/ init_rejected(r, f) \/ loadTasks_rejected(r, f)
           \/ handleAuth_rejected(r, f) \/ handleAddTask_rejected(r, f)
           \/ handleUpdate_rejected(r, f) \/ handleDelete_rejected(r, f)
Fairness ==
    /\ WF_vars(init /\ UNCHANGED events)
    /\ \A slot \in 1..MaxInflight :
           WF_vars(\E r \in requests : r.slot = slot /\ Completes(r) /\ UNCHANGED events)

SpecLive == Init /\ [][Next]_vars /\ Fairness

----------------------------------------------------------------------------
(* The board of one signed-in user: the task handlers and the add-task form, *)
(* for MaxEvents user events.  It starts where a restored session of alice   *)
(* has loaded her two tasks.                                                 *)

BoardServerTasks ==
    << [id |-> 2, title |-> <<"b">>, description |-> Undefined,
        status |-> "done", completed |-> TRUE],
       [id |-> 1, title |-> <<"A", "b">>, description |-> Some(<<"a">>),
        status |-> "todo", completed |-> FALSE] >>

InitBoard ==
    /\ tasks = BoardServerTasks
    /\ loading = FALSE
    /\ error = Null
    /\ title = <<>>
    /\ description = <<>>
    /\ statusFilter = "all"
    /\ searchTerm = <<>>
    /\ user = "alice"
    /\ authError = Null
    /\ authLoading = FALSE
    /\ token = TokenOf("alice")
    /\ initPc = "done"
    /\ requests = {}
    /\ srvTasks = BoardServerTasks
    /\ srvOwner = (1 :> "alice") @@ (2 :> "alice")
    /\ events = 0

NextBoard ==
    \/ \E t \in TitleInputs : CountedOnBoard(setTitle(t))
    \/ \E d \in DescriptionInputs : CountedOnBoard(setDescription(d))
    \/ CountedOnBoard(handleAddTask)
    \/ \E i \in 1..Len(tasks) : CountedOnBoard(handleToggleComplete(tasks[i]))
    \/ \E i \in 1..Len(tasks), st \in StatusKeys :
           CountedOnBoard(handleStatusChange(tasks[i], st))
    \/ \E i \in 1..Len(tasks) : CountedOnBoard(handleDelete(tasks[i].id))
    \/ \E r \in requests : ServeCreate(r) /\ UNCHANGED events
    \/ \E r \in requests : ServeUpdate(r) /\ UNCHANGED events
    \/ \E r \in requests : ServeDelete(r) /\ UNCHANGED events
    \/ \E r \in requests : handleAddTask_resolved(r) /\ UNCHANGED events
    \/ \E r \in requests : handleUpdate_resolved(r) /\ UNCHANGED events
    \/ \E r \in requests : handleDelete_resolved(r) /\ UNCHANGED events
    \/ \E r \in requests, f \in DistinctFailures :
           handleAddTask_rejected(r, f) /\ UNCHANGED events
    \/ \E r \in requests, f \in DistinctFailures : handleUpdate_rejected(r, f) /\ UNCHANGED events
    \/ \E r \in requests, f \in DistinctFailures : handleDelete_rejected(r, f) /\ UNCHANGED events

SpecBoard == InitBoard /\ [][NextBoard]_vars

----------------------------------------------------------------------------
(* The view-state derivation on its own: a board showing a task list the     *)
(* remote side returned, under every status filter and search term.          *)

ViewTitles == {<<"A", "b">>, <<"b">>}
ViewDescriptions == {Undefined, Some(<<"B", "a">>)}
ViewStatuses == StatusKeys \cup {"archived"}      \* "archived": not a Task["status"]
SearchChars == {"a", "B", " "}

ViewTaskLists ==
    UNION { { [i \in 1..n |-> [id |-> i, title |-> f[i].title,
                               description |-> f[i].description,
                               status |-> f[i].status,
                               completed |-> (f[i].status = "done")]] :
              f \in [1..n -> [title : ViewTitles, description : ViewDescriptions,
                              status : ViewStatuses]] } :
            n \in 0..MaxViewTasks }

SearchTerms == UNION { [1..n -> SearchChars] : n \in 0..MaxSearchLen }

InitView ==
    /\ tasks \in ViewTaskLists
    /\ loading = FALSE
    /\ error = Null
    /\ title = <<>>
    /\ description = <<>>
    /\ statusFilter = "all"
    /\ searchTerm = <<>>
    /\ user = "alice"
    /\ authError = Null
    /\ authLoading = FALSE
    /\ token = TokenOf("alice")
    /\ initPc = "done"
    /\ requests = {}
    /\ srvTasks = tasks
    /\ srvOwner = [i \in 1..Len(tasks) |-> "alice"]
    /\ events = 0

NextView ==
    \/ \E f \in FilterStatus : setStatusFilter(f) /\ UNCHANGED events
    \/ \E term \in SearchTerms : setSearchTerm(term) /\ UNCHANGED events

SpecView == InitView /\ [][NextView]_vars

----------------------------------------------------------------------------
(* The api functions called on their own, one call at a time, whatever is in *)
(* storage and whatever the remote side answers.  A call that has ended      *)
(* stays in requests, with its outcome, until the caller drops it.           *)

ApiTokens == {Null, "", TokenOf("alice"), ExpiredToken}

ApiCalls(slot) ==
    {registerUser(slot, "caller", u) : u \in Users}
    \cup {loginUser(slot, "caller", u) : u \in Users}
    \cup {getCurrentuser(slot, "caller", token),
          fetchTasks(slot, "caller", token),
          createTask(slot, "caller", token, [title |-> <<"b">>, description |-> <<>>]),
          updateTask(slot, "caller", token, 1, StatusPatch("done")),
          deleteTask(slot, "caller", token, 1)}

\* the bodies of a success response
ApiResponses ==
    {NoResult,
     [token |-> TokenOf("alice"), user |-> "alice", data |-> <<>>],
     [token |-> Null, user |-> "alice", data |-> <<>>],
     [token |-> Null, user |-> Null, data |-> <<InitialServerTasks[2]>>]}

api_call(q) ==
    /\ requests = {}
    /\ q \in ApiCalls(FreeSlot)
    /\ requests' = {q}
    /\ UNCHANGED <<tasks, loading, error, title, description, statusFilter,
                   searchTerm, user, authError, authLoading, token, initPc,
                   srvTasks, srvOwner>>

\* fetch() resolves with res.ok
Respond(r, body) ==
    /\ r \in requests /\ r.phase = "sent"
    /\ requests' = Replace(r, Answered(r, body))
    /\ UNCHANGED <<tasks, loading, error, title, description, statusFilter,
                   searchTerm, user, authError, authLoading, token, initPc,
                   srvTasks, srvOwner>>

\* return res.json()
api_returned(r) ==
    /\ r \in requests /\ r.phase = "ok" /\ r.handler = "caller"
    /\ requests' = Replace(r, [r EXCEPT !.phase = "returned"])
    /\ UNCHANGED <<tasks, loading, error, title, description, statusFilter,
                   searchTerm, user, authError, authLoading, token, initPc,
                   srvTasks, srvOwner>>

\* fetch() rejects, or  if (!res.ok) { ...; throw new Error(...) }
api_threw(r, f) ==
    /\ CanFail(r, f)
    /\ r.phase \in {"sent", "ok"} /\ r.handler = "caller"
    /\ requests' = Replace(r, [r EXCEPT !.phase = "threw",
                                          !.result = [message |-> ThrownMessage(r.api, f),
                                                      failure |-> f]])
    /\ UNCHANGED <<tasks, loading, error, title, description, statusFilter,
                   searchTerm, user, authError, authLoading, token, initPc,
                   srvTasks, srvOwner>>

api_done(r) ==
    /\ r \in requests /\ r.phase \in {"returned", "threw"}
    /\ requests' = requests \ {r}
    /\ UNCHANGED <<tasks, loading, error, title, description, statusFilter,
                   searchTerm, user, authError, authLoading, token, initPc,
                   srvTasks, srvOwner>>

InitApi ==
    /\ tasks = <<>>
    /\ loading = FALSE
    /\ error = Null
    /\ title = <<>>
    /\ description = <<>>
    /\ statusFilter = "all"
    /\ searchTerm = <<>>
    /\ user = Null
    /\ authError = Null
    /\ authLoading = FALSE
    /\ token \in ApiTokens
    /\ initPc = "done"
    /\ requests = {}
    /\ srvTasks = InitialServerTasks
    /\ srvOwner = InitialServerOwner
    /\ events = 0

NextApi ==
    \/ \E q \in ApiCalls(1) : api_call(q) /\ UNCHANGED events
    \/ \E r \in requests, body \in ApiResponses : Respond(r, body) /\ UNCHANGED events
    \/ \E r \in requests : api_returned(r) /\ UNCHANGED events
    \/ \E r \in requests, f \in Failures : api_threw(r, f) /\ UNCHANGED events
    \/ \E r \in requests : api_done(r) /\ UNCHANGED events

SpecApi == InitApi /\ [][NextApi]_vars

----------------------------------------------------------------------------
(* The continuations of the write handlers on their own: one answered create, *)
(* update or delete, applied to any list, also one in which an identifier is  *)
(* absent or occurs twice.                                                    *)

CacheTask(id, st) ==
    [id |-> id, title |-> <<"b">>, description |-> Undefined,
     status |-> st, completed |-> (st = "done")]
CacheLists ==
    UNION { [1..n -> {CacheTask(id, st) : id \in 1..2, st \in {"todo", "done"}}] :
            n \in 0..MaxCacheLen }
\* the task a write response carries
ReturnedTask(id) == CacheTask(id, "in-progress")
AnsweredWrites ==
    UNION { { Answered(createTask(1, "handleAddTask", TokenOf("alice"),
                                  [title |-> <<"b">>, description |-> <<>>]),
                       [NoResult EXCEPT !.data = <<ReturnedTask(id)>>]),
              Answered(updateTask(1, "handleStatusChange", TokenOf("alice"), id,
                                  StatusPatch("in-progress")),
                       [NoResult EXCEPT !.data = <<ReturnedTask(id)>>]),
              Answered(deleteTask(1, "handleDelete", TokenOf("alice"), id), NoResult) } :
            id \in 1..3 }

InitCache ==
    /\ tasks \in CacheLists
    /\ loading = FALSE
    /\ error = Null
    /\ title = <<"b">>
    /\ description = <<>>
    /\ statusFilter = "all"
    /\ searchTerm = <<>>
    /\ user = "alice"
    /\ authError = Null
    /\ authLoading = FALSE
    /\ token = TokenOf("alice")
    /\ initPc = "done"
    /\ requests \in {{q} : q \in AnsweredWrites}
    /\ srvTasks = <<>>
    /\ srvOwner = <<>>
    /\ events = 0

NextCache ==
    \/ \E r \in requests : handleAddTask_resolved(r) /\ UNCHANGED events
    \/ \E r \in requests : handleUpdate_resolved(r) /\ UNCHANGED events
    \/ \E r \in requests : handleDelete_resolved(r) /\ UNCHANGED events

SpecCache == InitCache /\ [][NextCache]_vars

----------------------------------------------------------------------------
(* Properties of the view-state derivation (checked under SpecView) *)

Range(q) == {q[i] : i \in 1..Len(q)}
Count(q, x) == Cardinality({i \in 1..Len(q) : q[i] = x})
IsPermutation(a, b) ==
    /\ Len(a) = Len(b)
    /\ \A x \in Range(a) \cup Range(b) : Count(a, x) = Count(b, x)

\* a is b with some elements left out, the others in b's order
RECURSIVE IsSubsequence(_, _)
IsSubsequence(a, b) ==
    IF a = <<>> THEN TRUE
    ELSE IF b = <<>> THEN FALSE
    ELSE IF Head(a) = Head(b) THEN IsSubsequence(Tail(a), Tail(b))
    ELSE IsSubsequence(a, Tail(b))

\* the elements of L with status S, in L's order
RECURSIVE WithStatus(_, _)
WithStatus(L, S) ==
    IF L = <<>> THEN <<>>
    ELSE IF Head(L).status = S THEN <<Head(L)>> \o WithStatus(Tail(L), S)
    ELSE WithStatus(Tail(L), S)

\* C1: the three buckets partition filteredTasks: every filtered task is in exactly
\* one bucket, todo ++ in-progress ++ done is a permutation of filteredTasks, and
\* each bucket keeps the relative order of filteredTasks.
C1_GroupedPartitionsFiltered ==
    /\ DOMAIN grouped = StatusKeys
    /\ \A i \in 1..Len(filteredTasks) :
           Cardinality({k \in StatusKeys : filteredTasks[i] \in Range(grouped[k])}) = 1
    /\ IsPermutation(grouped["todo"] \o grouped["in-progress"] \o grouped["done"],
                     filteredTasks)
    /\ \A k \in StatusKeys : IsSubsequence(grouped[k], filteredTasks)

\* a list whose grouping reorders it: a done task ahead of a todo task
C1_Witness ==
    /\ Len(filteredTasks) = 2
    /\ filteredTasks[1].status = "done"
    /\ filteredTasks[2].status = "todo"
    /\ grouped["todo"] = <<filteredTasks[2]>>
    /\ grouped["done"] = <<filteredTasks[1]>>
    /\ searchTerm # <<>>

\* C2: with a status S selected and an empty search term, the filtered list is the
\* subsequence of the task list with status S, in the original order.
C2_StatusFilterIsSubsequence ==
    (statusFilter \in StatusKeys /\ searchTerm = <<>>) =>
        /\ filteredTasks = WithStatus(tasks, statusFilter)
        /\ IsSubsequence(filteredTasks, tasks)

\* a status filter that keeps one task of two
C2_Witness ==
    /\ statusFilter = "in-progress" /\ searchTerm = <<>>
    /\ Len(tasks) = 2
    /\ tasks[1].status = "done" /\ tasks[2].status = "in-progress"
    /\ filteredTasks = <<tasks[2]>>

\* C3: with statusFilter "all" and an empty search term the filtered list is the
\* task list itself, whatever the tasks' descriptions and statuses.
C3_AllAndEmptyIsIdentity ==
    (statusFilter = "all" /\ searchTerm = <<>>) => filteredTasks = tasks

\* a list with a missing description and an unrecognized status, shown unfiltered
C3_Witness ==
    /\ statusFilter = "all" /\ searchTerm = <<>>
    /\ Len(tasks) = 2
    /\ tasks[1].description = Undefined
    /\ tasks[2].status \notin StatusKeys
    /\ filteredTasks = tasks

\* the search term without its surrounding white space, in lower case
FoldCase(q) ==
    [i \in 1..Len(q) |-> IF q[i] = "A" THEN "a" ELSE IF q[i] = "B" THEN "b" ELSE q[i]]
Stripped(term) ==
    LET inked == {i \in 1..Len(term) : term[i] # " "}
    IN IF inked = {} THEN <<>>
       ELSE SubSeq(term, CHOOSE i \in inked : \A j \in inked : i <= j,
                         CHOOSE i \in inked : \A j \in inked : i >= j)
IsSubstring(sub, q) ==
    \E i \in 0..Len(q) : \E j \in i..Len(q) : SubSeq(q, i + 1, j) = sub
PassesSearch(task, term) ==
    LET n == FoldCase(Stripped(term))
    IN \/ n = <<>>
       \/ IsSubstring(n, FoldCase(task.title))
       \/ IsSubstring(n, FoldCase(IF task.description = <<>> THEN <<>>
                                  ELSE task.description[1]))

\* C4: a task passes the search iff the trimmed, lowercased term is empty, or is a
\* substring of the lowercased title, or of the lowercased description (a missing
\* description counting as empty).  A white-space-only term filters nothing out.
C4_SearchPredicate ==
    /\ \A i \in 1..Len(tasks) :
           (tasks[i] \in Range(filteredTasks)) <=>
               /\ (statusFilter = "all" \/ tasks[i].status = statusFilter)
               /\ PassesSearch(tasks[i], searchTerm)
    /\ (statusFilter = "all" /\ \A i \in 1..Len(searchTerm) : searchTerm[i] = " ")
           => filteredTasks = tasks

\* the term "Ba" finds the description "Ba" (and "ba" is no part of "ab"): the task
\* whose only text is the title "Ab" is filtered out
C4_Witness ==
    /\ statusFilter = "all"
    /\ searchTerm = <<"B", "a">>
    /\ Len(tasks) = 2
    /\ tasks[1].title = <<"A", "b">> /\ tasks[1].description = Undefined
    /\ tasks[2].title = <<"b">> /\ tasks[2].description = Some(<<"B", "a">>)
    /\ filteredTasks = <<tasks[2]>>

\* C5: a filtered task with an unrecognized status is in grouped.todo and in no
\* other bucket.
C5_UnrecognizedStatusIsTodo ==
    \A i \in 1..Len(filteredTasks) :
        filteredTasks[i].status \notin {"todo", "in-progress", "done"} =>
            /\ filteredTasks[i] \in Range(grouped["todo"])
            /\ filteredTasks[i] \notin Range(grouped["in-progress"])
            /\ filteredTasks[i] \notin Range(grouped["done"])

\* an unrecognized status on the board, next to a done task
C5_Witness ==
    /\ Len(filteredTasks) = 2
    /\ filteredTasks[1].status = "done"
    /\ filteredTasks[2].status = "archived"
    /\ grouped["todo"] = <<filteredTasks[2]>>

\* the buckets of the board under status filter f, the list and the search term
\* being those of the state
groupedUnder(f) == GroupTasks(FilterTasks(tasks, f, searchTerm))

\* C29: for every task list, search term and recognized status S, grouped[S] under
\* statusFilter = S equals grouped[S] under statusFilter = "all", and the two other
\* buckets are empty, S = todo with tasks of an unrecognized status included.
C29_FilterSelectsColumn ==
    \A S \in StatusKeys :
        /\ groupedUnder(S)[S] = groupedUnder("all")[S]
        /\ \A k \in StatusKeys \ {S} : groupedUnder(S)[k] = <<>>

----------------------------------------------------------------------------
(* Properties of the task handlers (checked under SpecBoard) *)

Coupled(t) == t.completed <=> (t.status = "done")
Entry(id) == CHOOSE t \in Range(tasks) : t.id = id
Listed(id) == \E t \in Range(tasks) : t.id = id
\* the requests a step issues
Issued == {r \in requests' : r.phase = "sent" /\ r \notin requests}

\* C6: completed = true iff status = done, for every task of the in-memory list and
\* for every patch handleToggleComplete and handleStatusChange send, the remote side
\* applying each patch as sent.
C6_CompletedIffDone ==
    /\ \A i \in 1..Len(tasks) : Coupled(tasks[i])
    /\ \A r \in requests : r.api = "updateTask" => Coupled(r.arg.data[1])

\* both handlers have acted and their responses are in the list: task 1 (todo at
\* the start) is done, task 2 (done at the start) is in progress
C6_Witness ==
    /\ requests = {}
    /\ Listed(1) /\ Entry(1).status = "done" /\ Entry(1).completed
    /\ Listed(2) /\ Entry(2).status = "in-progress" /\ ~Entry(2).completed

\* what handleToggleComplete sends for a task shown as todo / not completed, and for
\* one shown as done / completed
C7_ToggleSent ==
    \A i \in 1..Len(tasks) :
        handleToggleComplete(tasks[i]) =>
            \E r \in requests' \ requests :
                /\ r.api = "updateTask" /\ r.arg.id = tasks[i].id
                /\ (tasks[i].status = "todo" /\ ~tasks[i].completed)
                       => r.arg.data[1] = [completed |-> TRUE, status |-> "done"]
                /\ (tasks[i].status = "done" /\ tasks[i].completed)
                       => r.arg.data[1] = [completed |-> FALSE, status |-> "todo"]
\* what a successful toggle leaves in the list
C7_ToggleApplied ==
    \A r \in requests :
        (handleUpdate_resolved(r) /\ r.handler = "handleToggleComplete") =>
            /\ Len(tasks') = Len(tasks)
            /\ \A i \in 1..Len(tasks) :
                   tasks[i].id = r.arg.id =>
                       /\ tasks'[i].status = r.arg.data[1].status
                       /\ tasks'[i].completed = r.arg.data[1].completed
\* C7: toggling a task shown as todo / not completed sends done / completed, toggling
\* one shown as done / completed sends todo / not completed, and when the update
\* succeeds the list's entry for the task is what was sent.
C7_ToggleTwice == [][C7_ToggleSent /\ C7_ToggleApplied]_vars

\* the second toggle of task 1 has been answered: the list shows it done / completed
\* and the response about to be applied makes it todo / not completed again
C7_Witness ==
    /\ events = 2
    /\ Listed(1) /\ Entry(1).status = "done" /\ Entry(1).completed
    /\ \E r \in requests :
           /\ r.handler = "handleToggleComplete" /\ r.arg.id = 1 /\ r.phase = "ok"
           /\ r.result.data[1].status = "todo" /\ ~r.result.data[1].completed

\* what handleStatusChange sends
C8_StatusSent ==
    \A i \in 1..Len(tasks), st \in StatusKeys :
        handleStatusChange(tasks[i], st) =>
            \E r \in requests' \ requests :
                /\ r.api = "updateTask" /\ r.arg.id = tasks[i].id
                /\ r.arg.data = << [status |-> st, completed |-> (st = "done")] >>
\* every status can be selected on every task whose controls are shown
C8_NoSelectionRefused ==
    \A i \in 1..Len(tasks), st \in StatusKeys :
        (TaskControlsShown(tasks[i]) /\ CanSend) => ENABLED handleStatusChange(tasks[i], st)
\* C8: whatever the task's status and whatever status is selected, handleStatusChange
\* sends status = the selected value and completed = (selected value is done); the
\* client refuses no selection.
C8_StatusChange == [](C8_NoSelectionRefused) /\ [][C8_StatusSent]_vars

\* a direct move from done to todo is in flight, and so is one from todo to done
C8_Witness ==
    /\ \E r \in requests :
           /\ r.handler = "handleStatusChange" /\ r.arg.id = 2
           /\ r.arg.data[1] = [status |-> "todo", completed |-> FALSE]
           /\ Listed(2) /\ Entry(2).status = "done"
    /\ \E r \in requests :
           /\ r.handler = "handleStatusChange" /\ r.arg.id = 1
           /\ r.arg.data[1] = [status |-> "done", completed |-> TRUE]
           /\ Listed(1) /\ Entry(1).status = "todo"

\* the requests about identifier id that are in flight next to r
Rivals(r, api) == {q \in requests \ {r} : q.api = api /\ q.arg.id = r.arg.id}

\* C18 as stated: the response that arrives last decides the list's content for the
\* identifier: the updated task if it is the update's, no entry if it is the
\* delete's.
C18_LaterResponseWins ==
    [][\A r \in requests :
          /\ (handleUpdate_resolved(r) /\ Rivals(r, "deleteTask") = {}) =>
                 (Listed(r.arg.id)' /\ Entry(r.arg.id)' = r.result.data[1])
          /\ (handleDelete_resolved(r) /\ Rivals(r, "updateTask") = {}) =>
                 ~Listed(r.arg.id)']_vars

\* sending a request leaves the requests in flight as they are
C18_NoneAborted ==
    Issued # {} => (requests \subseteq requests' /\ tasks' = tasks)
\* each response is applied on its own: the delete's removes the entry, the update's
\* replaces the entry if the list still has it and adds none
C18_AppliedIndependently ==
    \A r \in requests :
        /\ handleDelete_resolved(r) =>
               (~Listed(r.arg.id)' /\ requests' = requests \ {r})
        /\ handleUpdate_resolved(r) =>
               /\ Listed(r.arg.id)' <=> Listed(r.arg.id)
               /\ Listed(r.arg.id) => Entry(r.arg.id)' = r.result.data[1]
               /\ requests' = requests \ {r}
\* C18 (amended): a delete and an update of the same identifier in flight together
\* are both completed, neither aborted; when both succeed the delete wins whatever
\* the order of the responses: an update response arriving after the delete's
\* finds no entry and adds none, so the identifier ends absent from the list.
C18_DeleteWins == [][C18_NoneAborted /\ C18_AppliedIndependently]_vars

\* the delete of task 1 has been applied and the response of an update of task 1,
\* sent while the delete was in flight, is still to be applied
C18_Witness ==
    /\ ~Listed(1) /\ ~Holds(1)
    /\ \E r \in requests :
           /\ r.api = "updateTask" /\ r.arg.id = 1 /\ r.phase = "ok"
           /\ ENABLED handleUpdate_resolved(r)

\* a title with nothing but white space in it
Blank(t) == \A i \in 1..Len(t) : t[i] = " "
C20_NoBlankTitleSent ==
    \A r \in requests : r.api = "createTask" => ~Blank(r.arg.data[1].title)
C20_BlankTitleStep ==
    (handleAddTask /\ Blank(title)) =>
        /\ requests' = requests
        /\ tasks' = tasks
        /\ title' = title /\ description' = description
        /\ error' = error
\* C20: createTask is never called with an empty or white-space-only title: with such
\* a title handleAddTask issues no request and leaves the task list, the form fields
\* and the error message as they are.
C20_NoEmptyTitle == [](C20_NoBlankTitleSent) /\ [][C20_BlankTitleStep]_vars

\* a white-space title and a description were typed and the form was submitted:
\* nothing was sent and the form is as typed
C20_Witness ==
    /\ events = 3
    /\ title = <<" ">> /\ description = <<"a">>
    /\ requests = {} /\ tasks = BoardServerTasks /\ error = Null
    /\ srvTasks = BoardServerTasks

\* the step that issues a request leaves the list as it is
C22_NoOptimisticUpdate == Issued # {} => tasks' = tasks
\* the list changes only in the continuation of a request the remote side answered
C22_OnlyOnCompletion ==
    tasks' # tasks =>
        \E r \in requests :
            /\ r.phase = "ok"
            /\ \/ handleAddTask_resolved(r)
               \/ handleUpdate_resolved(r)
               \/ handleDelete_resolved(r)
\* a failed create, update or delete, whatever the failure
C22_FailureStep ==
    \A r \in requests, f \in Failures :
        \/ handleAddTask_rejected(r, f)
        \/ handleUpdate_rejected(r, f)
        \/ handleDelete_rejected(r, f)
        => /\ tasks' = tasks
           /\ error' \notin {Null, ""}
           /\ token' = token /\ user' = user
\* C22: the task list is not changed when a create, update or delete request is
\* issued nor while it is in flight, only when its response is applied; when the
\* request fails, by a network failure or by a non-success status, the list is as it
\* was, the error message is non-null and the token and the user are unchanged.
C22_ListFollowsResponses ==
    [][C22_NoOptimisticUpdate /\ C22_OnlyOnCompletion /\ C22_FailureStep]_vars

\* a delete was refused with a body that is not JSON: both tasks are still listed
C22_Witness ==
    /\ error = "Failed to delete task"
    /\ tasks = BoardServerTasks /\ srvTasks = BoardServerTasks
    /\ requests = {}
    /\ user = "alice" /\ token = TokenOf("alice")

\* the remote side's record of identifier id
ServerRecord(id) == CHOOSE t \in Range(srvTasks) : t.id = id

\* the toggles of identifier id that are in flight
TogglesOf(id) == {q \in requests : q.handler = "handleToggleComplete" /\ q.arg.id = id}

\* the patch of a toggle is made of the list's entry alone, whatever the remote side
\* holds and whatever is in flight
C28_FromRenderedRecord ==
    \A i \in 1..Len(tasks) :
        handleToggleComplete(tasks[i]) =>
            \E r \in Issued :
                /\ Issued = {r}
                /\ r.arg.id = tasks[i].id
                /\ r.arg.data[1].completed = ~tasks[i].completed
                /\ r.arg.data[1].status =
                       (IF tasks[i].completed THEN "todo" ELSE "done")
\* a toggle issued while the entry is still as an earlier toggle in flight saw it
\* sends that toggle's patch again
C28_SamePatchAgain ==
    \A i \in 1..Len(tasks) :
        handleToggleComplete(tasks[i]) =>
            \A q \in TogglesOf(tasks[i].id) :
                q.arg.data[1].completed = ~tasks[i].completed =>
                    \A r \in Issued : r.arg.data[1] = q.arg.data[1]
\* applying the response of either leaves the entry toggled once
C28_AppliedOnce ==
    \A r \in requests :
        (handleUpdate_resolved(r) /\ r.handler = "handleToggleComplete"
                                  /\ Listed(r.arg.id)) =>
            /\ Entry(r.arg.id)'.completed = r.arg.data[1].completed
            /\ Entry(r.arg.id)'.status = r.arg.data[1].status
\* C28: handleToggleComplete computes its patch from the task record of the rendered
\* list: two toggles of a task issued before a response has changed its entry send
\* identical patches, and the task ends toggled once, not back in its first state.
C28_DoubleToggle ==
    [][C28_FromRenderedRecord /\ C28_SamePatchAgain /\ C28_AppliedOnce]_vars

\* task 1, still listed as todo, was toggled twice: both requests carry done /
\* completed and the remote side has applied both
C28_Witness ==
    /\ Listed(1) /\ Entry(1).status = "todo" /\ ~Entry(1).completed
    /\ Cardinality(TogglesOf(1)) = 2
    /\ \A q \in TogglesOf(1) :
           /\ q.phase = "ok"
           /\ q.arg.data[1] = [completed |-> TRUE, status |-> "done"]
    /\ ServerRecord(1).status = "done"

\* C27: once no request is in flight and every request has succeeded, each entry of
\* the list is the remote side's current record of its task, whatever the order in
\* which the responses of concurrent updates arrived.
C27_EntryEqualsServerRecord ==
    (requests = {} /\ error = Null) =>
        \A i \in 1..Len(tasks) :
            Holds(tasks[i].id) /\ tasks[i] = ServerRecord(tasks[i].id)

----------------------------------------------------------------------------
(* Properties of the write continuations (checked under SpecCache) *)

\* the number of entries of q with identifier id
CountId(q, id) == Cardinality({i \in 1..Len(q) : q[i].id = id})

C25_UpdateReplaces ==
    \A r \in requests :
        handleUpdate_resolved(r) =>
            LET u == r.result.data[1]
            IN /\ Len(tasks') = Len(tasks)
               /\ \A i \in 1..Len(tasks) :
                      /\ tasks[i].id = u.id => tasks'[i] = u
                      /\ tasks[i].id # u.id => tasks'[i] = tasks[i]
C25_DeleteRemoves ==
    \A r \in requests :
        handleDelete_resolved(r) =>
            /\ CountId(tasks', r.arg.id) = 0
            /\ Len(tasks') = Len(tasks) - CountId(tasks, r.arg.id)
            /\ IsSubsequence(tasks', tasks)
C25_CreatePrepends ==
    \A r \in requests :
        handleAddTask_resolved(r) =>
            /\ Len(tasks') = Len(tasks) + 1
            /\ Head(tasks') = r.result.data[1]
            /\ Tail(tasks') = tasks
\* C25: a successful update puts the returned task at every position whose entry has
\* its id and leaves the other entries and the length as they are (nothing is added
\* when no entry has the id); a successful delete removes exactly the entries with
\* the id, the others keeping their order; a successful create puts the returned
\* task at the front.
C25_ReconcileById ==
    [][C25_UpdateReplaces /\ C25_DeleteRemoves /\ C25_CreatePrepends]_vars

\* an update of identifier 1 has been applied to a list that had it at both ends
C25_Witness ==
    /\ requests = {}
    /\ Len(tasks) = 3
    /\ tasks[1] = ReturnedTask(1) /\ tasks[3] = ReturnedTask(1)
    /\ tasks[2] = CacheTask(2, "done")

----------------------------------------------------------------------------
(* Properties of the session (checked under Spec) *)

\* the step in which a login is rejected
C9_LoginRejected ==
    \A r \in requests, f \in Failures :
        (handleAuth_rejected(r, f) /\ r.api = "loginUser") =>
            /\ token' = token
            /\ user = Null /\ user' = Null
            /\ AuthScreenShown'
            /\ authError' \notin {Null, ""}
            /\ requests' = requests \ {r}
            /\ ~authLoading'
\* C9: a rejected login writes no token, leaves user null (the unauthenticated view
\* stays), sets authError to a non-empty message, issues no task fetch and puts
\* authLoading back to false.
C9_RejectedLogin == [][C9_LoginRejected]_vars

\* a login was rejected with a body that carries no message
C9_Witness ==
    /\ authError = "Failed to login"
    /\ user = Null /\ token = Null
    /\ ~authLoading /\ requests = {}

\* the mount effect's step when nothing is stored
C10_InitNoToken ==
    (init /\ token = Null) =>
        /\ requests' = {} /\ requests = {}
        /\ user' = Null
        /\ ~loading'
        /\ token' = Null
\* C10: startup with no stored token issues no request, leaves user null and sets
\* loading to false.
C10_StartupWithoutToken == [][C10_InitNoToken]_vars

\* the mount effect has run with nothing stored
C10_Witness ==
    /\ initPc = "done" /\ events = 0
    /\ token = Null /\ user = Null
    /\ ~loading /\ requests = {}
    /\ srvTasks = InitialServerTasks

\* the step in which the current-user check of the mount effect is rejected
C11_RestoreRejected ==
    \A r \in requests, f \in Failures :
        init_rejected(r, f) =>
            /\ token \notin {Null, ""}
            /\ token' = Null
            /\ user = Null /\ user' = Null
            /\ ~loading'
            /\ AuthFormShown'
            /\ tasks' = <<>>
            /\ requests = {r} /\ requests' = {}
\* C11: when the current-user check of a stored token is rejected at startup, the
\* token is removed from storage, user is null, loading becomes false, the
\* unauthenticated view is shown, and no task fetch was or is issued.
C11_RejectedRestore == [][C11_RestoreRejected]_vars

\* the mount effect has left through its catch block
C11_Witness ==
    /\ initPc = "caught" /\ events = 0
    /\ token = Null /\ user = Null
    /\ ~loading /\ requests = {} /\ tasks = <<>>

\* the steps that store a token, and the steps that remove it
C12_TokenWritten ==
    (token' # token /\ token' # Null) =>
        \E r \in requests :
            /\ handleAuth_resolved(r)
            /\ r.api \in {"registerUser", "loginUser"} /\ r.phase = "ok"
            /\ token' = r.result.token
C12_TokenRemoved ==
    (token' # token /\ token' = Null) =>
        \/ handleLogout
        \/ \E r \in requests, f \in Failures :
               init_rejected(r, f) /\ r.api = "getCurrentuser" /\ initPc = "awaitMe"
\* loadTasks and the task handlers, sending, resolved or rejected
C12_TaskStep ==
    \/ handleAddTask
    \/ \E i \in 1..Len(tasks) :
           \/ handleToggleComplete(tasks[i])
           \/ handleDelete(tasks[i].id)
           \/ \E st \in StatusKeys : handleStatusChange(tasks[i], st)
    \/ \E r \in requests :
           \/ loadTasks_resolved(r) \/ handleAddTask_resolved(r)
           \/ handleUpdate_resolved(r) \/ handleDelete_resolved(r)
           \/ \E f \in Failures :
                  \/ loadTasks_rejected(r, f) \/ handleAddTask_rejected(r, f)
                  \/ handleUpdate_rejected(r, f) \/ handleDelete_rejected(r, f)
\* no step of theirs changes the token
C12_TaskStepsKeepToken == token' # token => ~C12_TaskStep
\* C12: the stored token is written only by a successful login or register response
\* and removed only by logout or by the rejected current-user check of the startup
\* restore; loadTasks and the create, toggle, status-change and delete handlers
\* leave it as it is, also when their request is refused.
C12_TokenLifecycle ==
    [][C12_TokenWritten /\ C12_TokenRemoved /\ C12_TaskStepsKeepToken]_vars

\* a task request of alice was refused by the remote side; her token is still stored
C12_Witness ==
    /\ error = "denied"
    /\ user = "alice" /\ token = TokenOf("alice")
    /\ requests = {} /\ ~loading

\* the api functions that call getAuthHeaders
ProtectedApis == {"getCurrentuser", "fetchTasks", "createTask", "updateTask", "deleteTask"}
C13_IssuedWithStoredToken ==
    \A r \in Issued :
        r.api \in ProtectedApis =>
            /\ token' \notin {Null, ""}
            /\ r.auth = <<token'>>
\* C13: every list, create, update and delete request and every current-user check
\* is issued with the Authorization header made of the token that is in storage when
\* the request is issued, and a token is in storage whenever one is issued.
C13_BearerFromStorage == [][C13_IssuedWithStoredToken]_vars

\* after alice's token was used (her task was deleted with it), bob's token is the
\* stored one and the task fetch of his login carries it
C13_Witness ==
    /\ ~Holds(1)
    /\ token = TokenOf("bob")
    /\ \E r \in requests :
           /\ r.api = "fetchTasks" /\ r.phase = "sent" /\ r.handler = "handleLogin"
           /\ r.auth = <<TokenOf("bob")>>

\* the mount effect is past its current-user check
RestoreFinished == initPc \notin {"start", "awaitMe"}

\* C17: the board is rendered (user is non-null) only while a token is in storage,
\* and once the startup restore has finished a token is in storage only while user
\* is non-null.
C17_BoardOnlyWhenLoggedIn ==
    /\ AuthScreenShown <=> ~BoardShown
    /\ BoardShown => (user # Null /\ token \notin {Null, ""})
    /\ RestoreFinished => (token \notin {Null, ""} => user # Null)

\* bob's board after his login, with his task loaded
C17_Witness ==
    /\ BoardShown /\ user = "bob" /\ token = TokenOf("bob")
    /\ initPc = "done" /\ ~loading /\ requests = {}
    /\ Len(tasks) = 1 /\ tasks[1].id = 2

\* the step handleLogout takes
C19_LogoutStep ==
    handleLogout =>
        /\ user # Null
        /\ token' = Null
        /\ user' = Null
        /\ tasks' = <<>>
        /\ error' = Null
        /\ requests' = requests
        /\ AuthScreenShown'
\* C19: right after handleLogout no token is in storage, user is null, the task list
\* is empty and the task error message is null; the logout issues no request.
C19_LogoutDestroysSession == [][C19_LogoutStep]_vars

\* a session in which a task was created has been ended by a logout
C19_Witness ==
    /\ Len(srvTasks) = 3
    /\ user = Null /\ token = Null
    /\ tasks = <<>> /\ error = Null /\ requests = {}

\* C21: when every issued request completes, with success or with failure, loading
\* becomes false again whenever it is true and so does authLoading: no failure
\* leaves the "Loading..." screen or the disabled submit button for ever.
C21_StaysInteractive ==
    /\ loading ~> ~loading
    /\ authLoading ~> ~authLoading

\* bob's login succeeded and his task fetch failed: the board is up, with the error
C21_Witness ==
    /\ user = "bob" /\ error = "Failed to fetch tasks"
    /\ ~loading /\ ~authLoading /\ requests = {}

\* the continuation of a successful login or register
C23_AuthResolvedStep ==
    \A r \in requests :
        handleAuth_resolved(r) =>
            /\ token' = r.result.token /\ token' \in Tokens
            /\ user' = r.result.user /\ user' # Null
            /\ Issued = {fetchTasks(r.slot, r.handler, r.result.token)}
            /\ \A q \in Issued : q.auth = <<r.result.token>>
\* the end of the task fetch that a login or register started
C23_FetchEndStep ==
    \A r \in requests :
        r.handler \in {"handleLogin", "handleRegister"} =>
            /\ loadTasks_resolved(r) =>
                   (user' = user /\ token' = token /\ authError' = authError)
            /\ \A f \in Failures :
                   loadTasks_rejected(r, f) =>
                       /\ user' = user /\ token' = token
                       /\ error' \notin {Null, ""}
                       /\ authError' = authError
\* C23: a successful login or register stores the returned token and sets user in
\* the step that issues the task fetch, which carries the new token; the end of that
\* fetch, success or failure, changes neither user nor the stored token, and a
\* failure is reported in error, authError staying as it is.
C23_LoginThenFetch == [][C23_AuthResolvedStep /\ C23_FetchEndStep]_vars

\* bob's login succeeded and his task fetch was refused: he is logged in, the
\* refusal is in error and authError is null
C23_Witness ==
    /\ user = "bob" /\ token = TokenOf("bob")
    /\ error = "denied" /\ authError = Null
    /\ ~loading /\ ~authLoading /\ requests = {} /\ tasks = <<>>

\* The states of the initialization state machine, read off the application's state:
\* restoring while the current-user check of the mount effect is in flight,
\* authenticated while user is set, unauthenticated otherwise.
Restoring == \E r \in requests : r.api = "getCurrentuser"
StoredToken == token \notin {Null, ""}
RestoreState ==
    IF Restoring THEN "restoring"
    ELSE IF user # Null THEN "authenticated"
    ELSE IF initPc = "caught" THEN "restore-failed"
    ELSE "unauthenticated"

\* the transitions of the machine that the startup flow may take
C24_EntersRestoring ==
    (RestoreState # "restoring" /\ RestoreState' = "restoring") =>
        /\ RestoreState = "unauthenticated"
        /\ init /\ StoredToken /\ token' = token
        /\ Issued = {getCurrentuser(1, "init", token)}
C24_LeavesRestoring ==
    (RestoreState = "restoring" /\ RestoreState' # "restoring") =>
        \/ /\ RestoreState' = "authenticated"
           /\ \E r \in requests :
                  init_resolved(r) /\ r.phase = "ok" /\ user' = r.result.user
           /\ token' = token
        \/ /\ RestoreState' = "restore-failed"
           /\ \E r \in requests, f \in Failures : init_rejected(r, f)
           /\ token' = Null /\ user' = Null /\ AuthFormShown'
\* before the restore is over, authenticated is reached from restoring only
C24_AuthenticatedFromRestoring ==
    (~RestoreFinished /\ RestoreState # "authenticated" /\ RestoreState' = "authenticated")
        => RestoreState = "restoring"
\* while restoring, the page is loading, nobody is logged in, the form is not
\* rendered and no login or register is or can be submitted
C24_WhileRestoring ==
    Restoring =>
        /\ initPc = "awaitMe" /\ StoredToken
        /\ loading /\ user = Null
        /\ ~AuthFormShown /\ ~SubmitEnabled
        /\ \A r \in requests : r.api \notin {"loginUser", "registerUser"}
        /\ \A u \in Users : ~ENABLED handleLogin(u) /\ ~ENABLED handleRegister(u)
\* C24: the startup flow takes the transitions of the initialization state machine
\* only: it enters restoring only with a token stored, reaches authenticated only
\* from restoring on a successful current-user check, leaves restoring for
\* unauthenticated only through a failed check that clears the token, and while it
\* is restoring the login/register form is not rendered, so none can be submitted.
C24_StartupStateMachine ==
    /\ [](C24_WhileRestoring)
    /\ [][C24_EntersRestoring /\ C24_LeavesRestoring
            /\ C24_AuthenticatedFromRestoring]_vars

\* the restore of alice's session has just succeeded: her tasks are being fetched
C24_Witness ==
    /\ initPc = "awaitTasks" /\ events = 0
    /\ RestoreState = "authenticated" /\ user = "alice" /\ token = TokenOf("alice")
    /\ requests = {fetchTasks(1, "init", TokenOf("alice"))}

\* C26: while no user is authenticated the in-memory task list is empty, also when
\* a task fetch or create issued before a logout completes after it.
C26_NoTasksWithoutUser == user = Null => tasks = <<>>

\* the requests in flight made by the api functions of the set apis
InFlight(apis) == {r \in requests : r.api \in apis}

\* C30: whenever the startup current-user check or a task-list fetch is in flight,
\* loading is true; at most one task-list fetch is in flight, and at most one login
\* or register request is in flight.
C30_SingleFlight ==
    /\ InFlight({"getCurrentuser", "fetchTasks"}) # {} => loading
    /\ Cardinality(InFlight({"fetchTasks"})) <= 1
    /\ Cardinality(InFlight({"loginUser", "registerUser"})) <= 1

\* a login is in flight and nothing else is: the form is shown, a second request
\* could be sent, and the submit control is disabled
C30_Witness ==
    /\ Cardinality(InFlight({"loginUser"})) = 1
    /\ Cardinality(requests) = 1
    /\ CanSend
    /\ AuthFormShown /\ authLoading /\ ~SubmitEnabled

\* C16: while a user is authenticated, every task of the in-memory list is one the
\* remote side returned to a request carrying that user's token.  The remote side
\* returns a task to its owner only, so these are the tasks the user owns.
C16_OnlyOwnTasks ==
    user # Null => \A i \in 1..Len(tasks) : Owns(user, tasks[i].id)

----------------------------------------------------------------------------
(* Properties of the api functions (checked under SpecApi) *)

BodyIsJson(f) == f # "not-json"
BodyErrorField(f) ==
    CASE f = "error-empty" -> <<"">>
      [] f = "error-denied" -> <<"denied">>
      [] OTHER -> <<>>
MessageOfBody(api, f) ==
    IF BodyIsJson(f) /\ BodyErrorField(f) # <<>>
    THEN BodyErrorField(f)[1]
    ELSE DefaultMessage(api)

\* C15: for every api function, a non-success response ends the call with an error
\* whose message is the body's error field when the body parses as JSON and has
\* that field, and the function's fixed message otherwise; it yields no result.
C15_ErrorNormalization ==
    \A r \in requests :
        (r.phase = "threw" /\ r.result.failure # "network") =>
            r.result.message = MessageOfBody(r.api, r.result.failure)

====
